---- MODULE Spec2Model ----
(***************************************************************************)
(* Model of fsu::Map_ADT<K,D,P> (src/map_adt.h): an ordered map kept in a  *)
(* left-leaning red-black tree whose Erase only marks nodes DEAD and whose *)
(* Rehash rebuilds the tree from the entries still alive.                  *)
(*                                                                         *)
(* Nodes live in a heap: a function from addresses to node records.  The   *)
(* tree is reached from root_; a null pointer is the address Null.  Every  *)
(* recursive method of the class is a RECURSIVE operator that takes the    *)
(* heap and returns the heap it leaves behind together with its result.    *)
(*                                                                         *)
(* The iterator classes (mapiter_adt.h) are not part of the sources at     *)
(* hand; Init, sInit, Increment, sIncrement and the iterator comparison    *)
(* are modelled from section 4.D of the specification.                     *)
(***************************************************************************)
EXTENDS Integers, Sequences, FiniteSets, TLC

\* ------------------------------------------------------------------------
\* Bounds of the model
\* ------------------------------------------------------------------------

\* keys 1..MaxKey are used by the specification Spec
MaxKey == 3

\* the data value, other than D(), that Put and Insert write
OtherData == 1

\* keys 1..TallKey are used by the specification SpecTall
TallKey == 9

\* keys 1..CopyKey are used by the specification SpecCopy
CopyKey == 2

\* keys 1..EqKey are used by the specification SpecEq
EqKey == 5

\* keys 1..RotKey are used by the specification SpecRotate
RotKey == 3

\* the lines SpecRotate lets the rotations write to std::cerr
MaxErr == 2

\* distance between the two cells the allocator keeps for one key
AddrStride == 16

Keys == 1..MaxKey

TallKeys == 1..TallKey

CopyKeys == 1..CopyKey

EqKeys == 1..EqKey

RotKeys == 1..RotKey

\* D(): the value-initialised data of a node that Get creates
DefaultData == 0

Data == {DefaultData, OtherData}

\* ------------------------------------------------------------------------
\* Node and flag model
\* ------------------------------------------------------------------------

Null == 0

ZERO == 0

DEAD == 1

RED == 2

DEFAULT == RED

\* 0 != (mask & flags) for a one-bit mask
TestFlag(flags, mask) == (flags \div mask) % 2 = 1

\* flags |= mask
OrFlag(flags, mask) == IF TestFlag(flags, mask) THEN flags ELSE flags + mask

\* flags &= ~mask
ClearFlag(flags, mask) == IF TestFlag(flags, mask) THEN flags - mask ELSE flags

\* Node(k, d, flags): no children
Node(k, d, flags) ==
    [key |-> k, data |-> d, lchild |-> Null, rchild |-> Null, flags |-> flags]

IsRed(h, n) == TestFlag(h[n].flags, RED)

IsBlack(h, n) == ~IsRed(h, n)

IsDead(h, n) == TestFlag(h[n].flags, DEAD)

IsAlive(h, n) == ~IsDead(h, n)

SetRed(h, n) == [h EXCEPT ![n].flags = OrFlag(@, RED)]

SetBlack(h, n) == [h EXCEPT ![n].flags = ClearFlag(@, RED)]

\* SetDead written as an assignment: flags_ = DEAD
SetDeadAssigns(h, n) == [h EXCEPT ![n].flags = DEAD]

SetDead(h, n) == [h EXCEPT ![n].flags = OrFlag(@, DEAD)]

\* SetAlive that leaves flags_ as it is
SetAliveNoop(h, n) == h

\* SetAlive written as an assignment: flags_ = ZERO
SetAliveAssigns(h, n) == [h EXCEPT ![n].flags = ZERO]

SetAlive(h, n) == [h EXCEPT ![n].flags = ClearFlag(@, DEAD)]

RightChildIsRed(h, n) ==
    IF h[n].rchild # Null THEN IsRed(h, h[n].rchild) ELSE FALSE

LeftChildIsRed(h, n) ==
    IF h[n].lchild # Null THEN IsRed(h, h[n].lchild) ELSE FALSE

HasRightChild(h, n) == h[n].rchild # Null

HasLeftChild(h, n) == h[n].lchild # Null

\* pred_ : LessThan<K>, a strict order on the keys
Pred(a, b) == a < b

\* ------------------------------------------------------------------------
\* Allocation
\* ------------------------------------------------------------------------

\* the cells set aside for the nodes of key k
Pool(k) == {k + i * AddrStride : i \in 0..3}

\* new(std::nothrow) Node(k,d,flags): a cell that is not in use.  No method
\* orders or prints addresses, so the cell is fixed as the lowest free
\* cell of the key's pool; the allocation is taken to succeed.
NewNodeAddr(h, k) ==
    CHOOSE a \in Pool(k) \ DOMAIN h : \A b \in Pool(k) \ DOMAIN h : a <= b

\* NewNode that passes ZERO for the flags: a BLACK, alive leaf
NewNodeBlack(h, k, d) ==
    [a \in (DOMAIN h) \cup {NewNodeAddr(h, k)} |->
        IF a \in DOMAIN h THEN h[a] ELSE Node(k, d, ZERO)]

\* the heap after NewNode(k, d): the new cell holds a RED, alive leaf
NewNode(h, k, d) ==
    [a \in (DOMAIN h) \cup {NewNodeAddr(h, k)} |->
        IF a \in DOMAIN h THEN h[a] ELSE Node(k, d, DEFAULT)]

\* delete n
Delete(h, n) == [a \in (DOMAIN h) \ {n} |-> h[a]]

EmptyHeap == [a \in {} |-> Node(0, 0, ZERO)]

\* ------------------------------------------------------------------------
\* Rotations
\* ------------------------------------------------------------------------

ErrRotateLeft == " ** RotateLeft called with black right child"

ErrRotateRight == " ** RotateRight called with black left child"

\* RotateLeft that leaves the colours of n and p as they are
RotateLeftNoRecolor(h, n) ==
    IF n = Null \/ h[n].rchild = Null
    THEN [heap |-> h, node |-> n, err |-> <<>>]
    ELSE IF ~IsRed(h, h[n].rchild)
    THEN [heap |-> h, node |-> n, err |-> <<ErrRotateLeft>>]
    ELSE LET p  == h[n].rchild
             h1 == [h EXCEPT ![n].rchild = h[p].lchild]
             h2 == [h1 EXCEPT ![p].lchild = n]
         IN  [heap |-> h2, node |-> p, err |-> <<>>]

\* RotateLeft that returns n as it is
RotateLeftNoop(h, n) == [heap |-> h, node |-> n, err |-> <<>>]

\* RotateLeft without the test of the colour of the right child
RotateLeftUnchecked(h, n) ==
    IF n = Null \/ h[n].rchild = Null
    THEN [heap |-> h, node |-> n, err |-> <<>>]
    ELSE LET p  == h[n].rchild
             h1 == [h EXCEPT ![n].rchild = h[p].lchild]
             h2 == [h1 EXCEPT ![p].lchild = n]
             h3 == IF IsRed(h2, n) THEN SetRed(h2, p) ELSE SetBlack(h2, p)
             h4 == SetRed(h3, n)
         IN  [heap |-> h4, node |-> p, err |-> <<>>]

RotateLeft(h, n) ==
    IF n = Null \/ h[n].rchild = Null
    THEN [heap |-> h, node |-> n, err |-> <<>>]
    ELSE IF ~IsRed(h, h[n].rchild)
    THEN [heap |-> h, node |-> n, err |-> <<ErrRotateLeft>>]
    ELSE LET p  == h[n].rchild
             h1 == [h EXCEPT ![n].rchild = h[p].lchild]
             h2 == [h1 EXCEPT ![p].lchild = n]
             h3 == IF IsRed(h2, n) THEN SetRed(h2, p) ELSE SetBlack(h2, p)
             h4 == SetRed(h3, n)
         IN  [heap |-> h4, node |-> p, err |-> <<>>]

\* RotateRight that hangs the left child of p, not its right child, below n
RotateRightWrongGrandchild(h, n) ==
    IF n = Null \/ h[n].lchild = Null
    THEN [heap |-> h, node |-> n, err |-> <<>>]
    ELSE IF ~IsRed(h, h[n].lchild)
    THEN [heap |-> h, node |-> n, err |-> <<ErrRotateRight>>]
    ELSE LET p  == h[n].lchild
             h1 == [h EXCEPT ![n].lchild = h[p].lchild]
             h2 == [h1 EXCEPT ![p].rchild = n]
             h3 == IF IsRed(h2, n) THEN SetRed(h2, p) ELSE SetBlack(h2, p)
             h4 == SetRed(h3, n)
         IN  [heap |-> h4, node |-> p, err |-> <<>>]

\* RotateRight that returns n as it is
RotateRightNoop(h, n) == [heap |-> h, node |-> n, err |-> <<>>]

\* RotateRight that leaves the old root black: n->SetBlack() for n->SetRed()
RotateRightBlackensOldRoot(h, n) ==
    IF n = Null \/ h[n].lchild = Null
    THEN [heap |-> h, node |-> n, err |-> <<>>]
    ELSE IF ~IsRed(h, h[n].lchild)
    THEN [heap |-> h, node |-> n, err |-> <<ErrRotateRight>>]
    ELSE LET p  == h[n].lchild
             h1 == [h EXCEPT ![n].lchild = h[p].rchild]
             h2 == [h1 EXCEPT ![p].rchild = n]
             h3 == IF IsRed(h2, n) THEN SetRed(h2, p) ELSE SetBlack(h2, p)
             h4 == SetBlack(h3, n)
         IN  [heap |-> h4, node |-> p, err |-> <<>>]

RotateRight(h, n) ==
    IF n = Null \/ h[n].lchild = Null
    THEN [heap |-> h, node |-> n, err |-> <<>>]
    ELSE IF ~IsRed(h, h[n].lchild)
    THEN [heap |-> h, node |-> n, err |-> <<ErrRotateRight>>]
    ELSE LET p  == h[n].lchild
             h1 == [h EXCEPT ![n].lchild = h[p].rchild]
             h2 == [h1 EXCEPT ![p].rchild = n]
             h3 == IF IsRed(h2, n) THEN SetRed(h2, p) ELSE SetBlack(h2, p)
             h4 == SetRed(h3, n)
         IN  [heap |-> h4, node |-> p, err |-> <<>>]

\* ------------------------------------------------------------------------
\* Recursive left-leaning get and insert
\* ------------------------------------------------------------------------

\* a result [heap, node, err] with e written to std::cerr before its own
\* output
WithErr(s, e) == [s EXCEPT !.err = e \o @]

\* the first if without the test of the right child
RepairRightRedUntested(h, n) ==
    IF ~LeftChildIsRed(h, n)
    THEN RotateLeft(h, n)
    ELSE [heap |-> h, node |-> n, err |-> <<>>]

\* the tail of RGet and of RInsert, "repair the RBLL properties on the way
\* up", first if: the right child is red but the left is not
RepairRightRed(h, n) ==
    IF RightChildIsRed(h, n) /\ ~LeftChildIsRed(h, n)
    THEN RotateLeft(h, n)
    ELSE [heap |-> h, node |-> n, err |-> <<>>]

\* second if: two consecutive red left nodes
RepairLeftLeftRed(s) ==
    IF LeftChildIsRed(s.heap, s.node) /\ LeftChildIsRed(s.heap, s.heap[s.node].lchild)
    THEN WithErr(RotateRight(s.heap, s.node), s.err)
    ELSE s

\* the tail without its third if
RepairBothRedSkipped(s) == s

\* third if: both children red, swap parent/child colours
RepairBothRed(s) ==
    IF LeftChildIsRed(s.heap, s.node) /\ RightChildIsRed(s.heap, s.node)
    THEN [s EXCEPT !.heap = SetRed(SetBlack(SetBlack(@, @[s.node].lchild),
                                            @[s.node].rchild), s.node)]
    ELSE s

\* the three ifs in the order of the code, on the subtree below n; err is
\* what the descent has written to std::cerr
Repair(h, n, err) ==
    RepairBothRed(RepairLeftLeftRed(WithErr(RepairRightRed(h, n), err)))

\* nptr->lchild_ = r, the result of the recursive call, and the repair
RelinkLeft(nptr, r) == Repair([r.heap EXCEPT ![nptr].lchild = r.node], nptr, r.err)

\* nptr->rchild_ = r, the result of the recursive call, and the repair
RelinkRight(nptr, r) == Repair([r.heap EXCEPT ![nptr].rchild = r.node], nptr, r.err)

\* the result s of RGet with the reference parameter location set to loc
WithLocation(s, loc) ==
    [heap |-> s.heap, node |-> s.node, location |-> loc, err |-> s.err]

\* the recursive call of RGet has returned r for the left subtree of nptr
RGetLeft(nptr, r) == WithLocation(RelinkLeft(nptr, r), r.location)

\* the recursive call of RGet has returned r for the right subtree of nptr
RGetRight(nptr, r) == WithLocation(RelinkRight(nptr, r), r.location)

RECURSIVE RGet(_, _, _)
\* RGet(nptr, kval, location): the heap afterwards, the root of the subtree
\* afterwards, the node of kval, and what was written to std::cerr
RGet(h, nptr, kval) ==
    IF nptr = Null
    THEN WithLocation([heap |-> NewNode(h, kval, DefaultData),
                       node |-> NewNodeAddr(h, kval), err |-> <<>>],
                      NewNodeAddr(h, kval))
    ELSE IF Pred(kval, h[nptr].key)
    THEN RGetLeft(nptr, RGet(h, h[nptr].lchild, kval))
    ELSE IF Pred(h[nptr].key, kval)
    THEN RGetRight(nptr, RGet(h, h[nptr].rchild, kval))
    ELSE WithLocation(Repair(SetAlive(h, nptr), nptr, <<>>), nptr)

RECURSIVE RInsertNoSetAlive(_, _, _, _)
\* RInsert that overwrites the data of the node found without SetAlive()
RInsertNoSetAlive(h, nptr, key, data) ==
    IF nptr = Null
    THEN [heap |-> NewNode(h, key, data), node |-> NewNodeAddr(h, key), err |-> <<>>]
    ELSE IF Pred(key, h[nptr].key)
    THEN RelinkLeft(nptr, RInsertNoSetAlive(h, h[nptr].lchild, key, data))
    ELSE IF Pred(h[nptr].key, key)
    THEN RelinkRight(nptr, RInsertNoSetAlive(h, h[nptr].rchild, key, data))
    ELSE Repair([h EXCEPT ![nptr].data = data], nptr, <<>>)

RECURSIVE RInsert(_, _, _, _)
\* RInsert(nptr, key, data): the heap afterwards, the root of the subtree
\* afterwards, and what was written to std::cerr
RInsert(h, nptr, key, data) ==
    IF nptr = Null
    THEN [heap |-> NewNode(h, key, data), node |-> NewNodeAddr(h, key), err |-> <<>>]
    ELSE IF Pred(key, h[nptr].key)
    THEN RelinkLeft(nptr, RInsert(h, h[nptr].lchild, key, data))
    ELSE IF Pred(h[nptr].key, key)
    THEN RelinkRight(nptr, RInsert(h, h[nptr].rchild, key, data))
    ELSE Repair(SetAlive([h EXCEPT ![nptr].data = data], nptr), nptr, <<>>)

\* ------------------------------------------------------------------------
\* Private static recursive methods
\* ------------------------------------------------------------------------

RECURSIVE RSize(_, _)
RSize(h, n) ==
    IF n = Null THEN 0
    ELSE (IF IsAlive(h, n) THEN 1 ELSE 0) + RSize(h, h[n].lchild) + RSize(h, h[n].rchild)

RECURSIVE RNumNodes(_, _)
RNumNodes(h, n) ==
    IF n = Null THEN 0
    ELSE 1 + RNumNodes(h, h[n].lchild) + RNumNodes(h, h[n].rchild)

RECURSIVE RHeight(_, _)
RHeight(h, n) ==
    IF n = Null THEN -1
    ELSE LET lh == RHeight(h, h[n].lchild)
             rh == RHeight(h, h[n].rchild)
         IN  IF lh < rh THEN 1 + rh ELSE 1 + lh

RECURSIVE RRelease(_, _)
\* RRelease(n): the heap after all descendants of n have been deleted
RRelease(h, n) ==
    IF n = Null THEN h
    ELSE LET h1 == IF h[n].lchild # Null
                   THEN [Delete(RRelease(h, h[n].lchild), h[n].lchild)
                            EXCEPT ![n].lchild = Null]
                   ELSE h
             h2 == IF h1[n].rchild # Null
                   THEN [Delete(RRelease(h1, h1[n].rchild), h1[n].rchild)
                            EXCEPT ![n].rchild = Null]
                   ELSE h1
         IN  h2

\* ------------------------------------------------------------------------
\* In-order iterators: a stack of node pointers, the top is the last element
\* ------------------------------------------------------------------------

\* the iterator End() returns: an empty stack
End == <<>>

Top(stk) == stk[Len(stk)]

Pop(stk) == SubSeq(stk, 1, Len(stk) - 1)

\* two iterators are equal iff both stacks are empty or both tops are the
\* same node
IterEq(i, j) ==
    \/ i = <<>> /\ j = <<>>
    \/ i # <<>> /\ j # <<>> /\ Top(i) = Top(j)

RECURSIVE PushLeftChain(_, _, _)
\* push n and then the chain of left children below it
PushLeftChain(h, stk, n) ==
    IF h[n].lchild = Null THEN Append(stk, n)
    ELSE PushLeftChain(h, Append(stk, n), h[n].lchild)

\* structural advance: pop the node yielded; if it has a right child, push
\* that child and its leftmost chain
sIncrement(h, stk) ==
    IF stk = <<>> THEN stk
    ELSE IF HasRightChild(h, Top(stk))
    THEN PushLeftChain(h, Pop(stk), h[Top(stk)].rchild)
    ELSE Pop(stk)

RECURSIVE SkipDead(_, _)
\* while the node on top is dead, keep advancing
SkipDead(h, stk) ==
    IF stk # <<>> /\ IsDead(h, Top(stk)) THEN SkipDead(h, sIncrement(h, stk))
    ELSE stk

\* operator ++ of the in-order iterators
Increment(h, stk) == SkipDead(h, sIncrement(h, stk))

\* sInit(n): the leftmost chain from n, tombstones included
IterSInit(h, n) == IF n = Null THEN <<>> ELSE PushLeftChain(h, <<>>, n)

\* Init(n): the leftmost chain from n, positioned on the first entry alive
IterInit(h, n) == SkipDead(h, IterSInit(h, n))

\* *i : the entry of the node on top
Deref(h, i) == [key_ |-> h[Top(i)].key, data_ |-> h[Top(i)].data]

\* Begin that calls sInit where it should call Init
BeginNoSkip(h, rt) == IterSInit(h, rt)

Begin(h, rt) == IterInit(h, rt)

\* BeginStructuralInorder that calls Init where it should call sInit
BeginStructuralSkipsDead(h, rt) == IterInit(h, rt)

BeginStructuralInorder(h, rt) == IterSInit(h, rt)

\* ------------------------------------------------------------------------
\* Table API
\* ------------------------------------------------------------------------

RECURSIVE IncludesLoop(_, _, _, _)
\* the while loop of Includes: every node met on the way down is pushed
IncludesLoop(h, n, k, stk) ==
    IF n = Null THEN End
    ELSE IF Pred(k, h[n].key) THEN IncludesLoop(h, h[n].lchild, k, Append(stk, n))
    ELSE IF Pred(h[n].key, k) THEN IncludesLoop(h, h[n].rchild, k, Append(stk, n))
    ELSE IF IsAlive(h, n) THEN Append(stk, n)
    ELSE End

Includes(h, rt, k) == IncludesLoop(h, rt, k, <<>>)

\* Retrieve that value-initialises d when the key is not found
RetrieveClearsOnMiss(h, rt, k, d) ==
    LET i == Includes(h, rt, k)
    IN  IF IterEq(i, End) THEN [ret |-> FALSE, d |-> DefaultData]
        ELSE [ret |-> TRUE, d |-> Deref(h, i).data_]

\* Retrieve(k, d): the value returned and the content of d afterwards
Retrieve(h, rt, k, d) ==
    LET i == Includes(h, rt, k)
    IN  IF IterEq(i, End) THEN [ret |-> FALSE, d |-> d]
        ELSE [ret |-> TRUE, d |-> Deref(h, i).data_]

\* Get without root_->SetBlack()
GetLeavesRootColor(h, rt, k) ==
    LET r == RGet(h, rt, k)
    IN  [heap |-> r.heap, root |-> r.node, location |-> r.location, err |-> r.err]

\* Get that value-initialises the data of a node it finds dead
GetResetsResurrected(h, rt, k) ==
    LET r == RGet(h, rt, k)
    IN  [heap |-> SetBlack(IF Retrieve(h, rt, k, DefaultData).ret THEN r.heap
                           ELSE [r.heap EXCEPT ![r.location].data = DefaultData],
                           r.node),
         root |-> r.node, location |-> r.location, err |-> r.err]

\* Get(k): the heap and root_ afterwards, and the node whose data_ is
\* returned by reference
Get(h, rt, k) ==
    LET r == RGet(h, rt, k)
    IN  [heap |-> SetBlack(r.heap, r.node), root |-> r.node,
         location |-> r.location, err |-> r.err]

\* Put that drops the assignment: { Get(k); }
PutKeepsOldValue(h, rt, k, d) ==
    LET g == RGet(h, rt, k)
    IN  [heap |-> SetBlack(g.heap, g.node), root |-> g.node, err |-> g.err]

\* Put(k, d) { Get(k) = d; }
Put(h, rt, k, d) ==
    LET g == Get(h, rt, k)
    IN  [heap |-> [g.heap EXCEPT ![g.location].data = d], root |-> g.root,
         err |-> g.err]

RECURSIVE EraseLoop(_, _, _)
\* the while loop of Erase
EraseLoop(h, n, k) ==
    IF n = Null THEN h
    ELSE IF Pred(k, h[n].key) THEN EraseLoop(h, h[n].lchild, k)
    ELSE IF Pred(h[n].key, k) THEN EraseLoop(h, h[n].rchild, k)
    ELSE SetDead(h, n)

\* Erase that looks at the root only
EraseRootOnly(h, rt, k) ==
    IF rt # Null /\ ~Pred(k, h[rt].key) /\ ~Pred(h[rt].key, k) THEN SetDead(h, rt)
    ELSE h

\* Erase that also value-initialises the data of the node it marks dead
EraseClearsValue(h, rt, k) ==
    [a \in DOMAIN h |->
        IF EraseLoop(h, rt, k)[a] # h[a]
        THEN [EraseLoop(h, rt, k)[a] EXCEPT !.data = DefaultData]
        ELSE h[a]]

Erase(h, rt, k) == EraseLoop(h, rt, k)

\* Clear without RRelease(root_): only the root is deleted
ClearRootOnly(h, rt) == Delete(h, rt)

\* Clear(): the heap afterwards; root_ becomes Null
Clear(h, rt) == Delete(RRelease(h, rt), rt)

RECURSIVE RehashLoop(_, _, _, _)
\* the for loop of Rehash: i runs over the old tree, newRoot grows
RehashLoop(h, i, newRoot, err) ==
    IF IterEq(i, End) THEN [heap |-> h, newRoot |-> newRoot, err |-> err]
    ELSE LET r  == RInsert(h, newRoot, Deref(h, i).key_, Deref(h, i).data_)
             h1 == SetBlack(r.heap, r.node)
         IN  RehashLoop(h1, Increment(h1, i), r.node, err \o r.err)

\* Rehash that walks the old tree from BeginStructuralInorder()
RehashStructural(h, rt) ==
    LET l == RehashLoop(h, BeginStructuralInorder(h, rt), Null, <<>>)
    IN  [heap |-> Clear(l.heap, rt), root |-> l.newRoot, err |-> l.err]

\* Rehash whose loop starts one entry after Begin()
RehashSkipsFirst(h, rt) ==
    LET l == RehashLoop(h, Increment(h, Begin(h, rt)), Null, <<>>)
    IN  [heap |-> Clear(l.heap, rt), root |-> l.newRoot, err |-> l.err]

\* Rehash(): the heap and root_ afterwards
Rehash(h, rt) ==
    LET l == RehashLoop(h, Begin(h, rt), Null, <<>>)
    IN  [heap |-> Clear(l.heap, rt), root |-> l.newRoot, err |-> l.err]

\* Empty written with the test the wrong way round
EmptyNegated(rt) == rt # Null

Empty(rt) == rt = Null

\* Size that counts the nodes, dead or alive
SizeCountsNodes(h, rt) == RNumNodes(h, rt)

Size(h, rt) == RSize(h, rt)

NumNodes(h, rt) == RNumNodes(h, rt)

\* Height that counts the nodes on the longest path: 0 for the empty tree
HeightCountsNodes(h, rt) == RHeight(h, rt) + 1

Height(h, rt) == RHeight(h, rt)

RECURSIVE RCloneDefaultFlags(_, _)
\* RClone without newN->flags_ = n->flags_
RCloneDefaultFlags(h, n) ==
    IF n = Null THEN [heap |-> h, node |-> Null]
    ELSE LET newN == NewNodeAddr(h, h[n].key)
             h1   == NewNode(h, h[n].key, h[n].data)
             l    == RCloneDefaultFlags(h1, h[n].lchild)
             h3   == [l.heap EXCEPT ![newN].lchild = l.node]
             r    == RCloneDefaultFlags(h3, h[n].rchild)
             h4   == [r.heap EXCEPT ![newN].rchild = r.node]
         IN  [heap |-> h4, node |-> newN]

RECURSIVE RClone(_, _)
\* RClone(n): the heap afterwards and the root of the deep copy of n
RClone(h, n) ==
    IF n = Null THEN [heap |-> h, node |-> Null]
    ELSE LET newN == NewNodeAddr(h, h[n].key)
             h1   == NewNode(h, h[n].key, h[n].data)
             h2   == [h1 EXCEPT ![newN].flags = h[n].flags]
             l    == RClone(h2, h[n].lchild)
             h3   == [l.heap EXCEPT ![newN].lchild = l.node]
             r    == RClone(h3, h[n].rchild)
             h4   == [r.heap EXCEPT ![newN].rchild = r.node]
         IN  [heap |-> h4, node |-> newN]

\* Map_ADT(const Map_ADT& tree): the heap afterwards and the new root_
CopyConstruct(h, thatRoot) ==
    LET c == RClone(h, thatRoot)
    IN  [heap |-> c.heap, root |-> c.node]

\* operator=(that), for this != &that: the heap afterwards and the new root_
Assign(h, thisRoot, thatRoot) ==
    LET c == RClone(Clear(h, thisRoot), thatRoot)
    IN  [heap |-> c.heap, root |-> c.node]

RECURSIVE EqualLoop(_, _, _)
\* the for loop of operator ==, and the test after it: i and j run over
\* map1 and map2 from Begin()
EqualLoop(h, i, j) ==
    IF ~IterEq(i, End) /\ ~IterEq(j, End)
    THEN IF Deref(h, i).key_ # Deref(h, j).key_ \/ Deref(h, i).data_ # Deref(h, j).data_
         THEN FALSE
         ELSE EqualLoop(h, Increment(h, i), Increment(h, j))
    ELSE IF ~IterEq(i, End) \/ ~IterEq(j, End) THEN FALSE
    ELSE TRUE

\* operator == that walks both maps from BeginStructuralInorder()
EqualFromStructuralBegin(h, rt1, rt2) ==
    EqualLoop(h, BeginStructuralInorder(h, rt1), BeginStructuralInorder(h, rt2))

\* map1 == map2, for the maps with roots rt1 and rt2
Equal(h, rt1, rt2) == EqualLoop(h, Begin(h, rt1), Begin(h, rt2))

\* map1 != map2
NotEqual(h, rt1, rt2) == ~Equal(h, rt1, rt2)

\* ------------------------------------------------------------------------
\* The state machine: the map objects of a program and the calls of their
\* public methods
\* ------------------------------------------------------------------------

\* the map objects a program may hold: "a" exists from the start, "b" is
\* constructed and destroyed on the way
MapIds == {"a", "b"}

VARIABLES
    heap,      \* the nodes allocated: address -> node
    root,      \* root_ of every map object constructed and not yet destroyed
    cerr,      \* the lines written to std::cerr so far
    absLive,   \* per map: the keys whose last Get/Put/Insert came after their
               \* last Erase/Clear
    absSlot,   \* per map: key -> the value last written for it, for the keys
               \* that still have a slot
    lastOp     \* the last call: its name, and what its key (or the tree) was
               \* before the call

vars == <<heap, root, cerr, absLive, absSlot, lastOp>>

RECURSIVE FindNode(_, _, _)
\* the node that holds key k below n, or Null
FindNode(h, n, k) ==
    IF n = Null THEN Null
    ELSE IF h[n].key = k THEN n
    ELSE IF k < h[n].key THEN FindNode(h, h[n].lchild, k)
    ELSE FindNode(h, h[n].rchild, k)

\* what key k is in the tree: "absent", "dead" or "alive"
KeyStatus(h, rt, k) ==
    LET n == FindNode(h, rt, k)
    IN  IF n = Null THEN "absent" ELSE IF IsDead(h, n) THEN "dead" ELSE "alive"

\* what the tree is as a whole: "absent" (empty), "dead" (it has a
\* tombstone) or "alive" (nodes, none of them dead)
TreeStatus(h, rt) ==
    IF rt = Null THEN "absent"
    ELSE IF RSize(h, rt) < RNumNodes(h, rt) THEN "dead" ELSE "alive"

\* f with x mapped to v, x added to the domain if need be
Ext(f, x, v) == [y \in (DOMAIN f) \cup {x} |-> IF y = x THEN v ELSE f[y]]

\* f without x
Drop(f, x) == [y \in (DOMAIN f) \ {x} |-> f[y]]

NoSlots == [j \in {} |-> DefaultData]

\* Map_ADT a;
Init ==
    /\ heap = EmptyHeap
    /\ root = [m \in {"a"} |-> Null]
    /\ cerr = <<>>
    /\ absLive = [m \in {"a"} |-> {}]
    /\ absSlot = [m \in {"a"} |-> NoSlots]
    /\ lastOp = [op |-> "none", was |-> "absent"]

\* m.Get(k), the reference returned used for reading only
DoGet(m, k) ==
    /\ m \in DOMAIN root
    /\ lastOp' = [op |-> "get", was |-> KeyStatus(heap, root[m], k)]
    /\ LET g == Get(heap, root[m], k)
       IN  /\ heap' = g.heap
           /\ root' = [root EXCEPT ![m] = g.root]
           /\ cerr' = cerr \o g.err
    /\ absLive' = [absLive EXCEPT ![m] = @ \cup {k}]
    /\ absSlot' = [absSlot EXCEPT ![m] = IF k \in DOMAIN @ THEN @
                                         ELSE Ext(@, k, DefaultData)]

\* m[k], the reference returned used for reading only
DoIndex(m, k) == DoGet(m, k)

\* m.Put(k, d)
DoPut(m, k, d) ==
    /\ m \in DOMAIN root
    /\ lastOp' = [op |-> "put", was |-> KeyStatus(heap, root[m], k)]
    /\ LET p == Put(heap, root[m], k, d)
       IN  /\ heap' = p.heap
           /\ root' = [root EXCEPT ![m] = p.root]
           /\ cerr' = cerr \o p.err
    /\ absLive' = [absLive EXCEPT ![m] = @ \cup {k}]
    /\ absSlot' = [absSlot EXCEPT ![m] = Ext(@, k, d)]

\* m.Insert(k, d) { Put(k, d); }
DoInsert(m, k, d) == DoPut(m, k, d)

\* m.Erase(k)
DoErase(m, k) ==
    /\ m \in DOMAIN root
    /\ lastOp' = [op |-> "erase", was |-> KeyStatus(heap, root[m], k)]
    /\ heap' = Erase(heap, root[m], k)
    /\ absLive' = [absLive EXCEPT ![m] = @ \ {k}]
    /\ UNCHANGED <<root, cerr, absSlot>>

\* m.Clear()
DoClear(m) ==
    /\ m \in DOMAIN root
    /\ lastOp' = [op |-> "clear", was |-> TreeStatus(heap, root[m])]
    /\ heap' = Clear(heap, root[m])
    /\ root' = [root EXCEPT ![m] = Null]
    /\ absLive' = [absLive EXCEPT ![m] = {}]
    /\ absSlot' = [absSlot EXCEPT ![m] = NoSlots]
    /\ UNCHANGED cerr

\* m.Rehash()
DoRehash(m) ==
    /\ m \in DOMAIN root
    /\ lastOp' = [op |-> "rehash", was |-> TreeStatus(heap, root[m])]
    /\ LET r == Rehash(heap, root[m])
       IN  /\ heap' = r.heap
           /\ root' = [root EXCEPT ![m] = r.root]
           /\ cerr' = cerr \o r.err
    /\ absSlot' = [absSlot EXCEPT ![m] = [j \in absLive[m] |-> @[j]]]
    /\ UNCHANGED absLive

\* Map_ADT m;
DoConstruct(m) ==
    /\ m \notin DOMAIN root
    /\ lastOp' = [op |-> "construct", was |-> "absent"]
    /\ root' = Ext(root, m, Null)
    /\ absLive' = Ext(absLive, m, {})
    /\ absSlot' = Ext(absSlot, m, NoSlots)
    /\ UNCHANGED <<heap, cerr>>

\* Map_ADT m(that);
DoCopyConstruct(m, that) ==
    /\ m \notin DOMAIN root
    /\ that \in DOMAIN root
    /\ lastOp' = [op |-> "copy", was |-> TreeStatus(heap, root[that])]
    /\ LET c == CopyConstruct(heap, root[that])
       IN  /\ heap' = c.heap
           /\ root' = Ext(root, m, c.root)
    /\ absLive' = Ext(absLive, m, absLive[that])
    /\ absSlot' = Ext(absSlot, m, absSlot[that])
    /\ UNCHANGED cerr

\* m = that;
DoAssign(m, that) ==
    /\ m \in DOMAIN root
    /\ that \in DOMAIN root
    /\ lastOp' = [op |-> "assign", was |-> TreeStatus(heap, root[that])]
    /\ IF m # that
       THEN LET c == Assign(heap, root[m], root[that])
            IN  /\ heap' = c.heap
                /\ root' = [root EXCEPT ![m] = c.root]
       ELSE UNCHANGED <<heap, root>>
    /\ absLive' = [absLive EXCEPT ![m] = absLive[that]]
    /\ absSlot' = [absSlot EXCEPT ![m] = absSlot[that]]
    /\ UNCHANGED cerr

\* ~Map_ADT() of m { Clear(); }
DoDestroy(m) ==
    /\ m \in DOMAIN root
    /\ m # "a"
    /\ lastOp' = [op |-> "destroy", was |-> TreeStatus(heap, root[m])]
    /\ heap' = Clear(heap, root[m])
    /\ root' = Drop(root, m)
    /\ absLive' = Drop(absLive, m)
    /\ absSlot' = Drop(absSlot, m)
    /\ UNCHANGED cerr

\* m.Retrieve(k, d) with d holding out before the call; the value returned
\* and d afterwards are kept with the call
DoRetrieve(m, k, out) ==
    /\ m \in DOMAIN root
    /\ lastOp' = [op |-> "retrieve", was |-> KeyStatus(heap, root[m], k),
                  ret |-> Retrieve(heap, root[m], k, out).ret,
                  d |-> Retrieve(heap, root[m], k, out).d]
    /\ UNCHANGED <<heap, root, cerr, absLive, absSlot>>

RECURSIVE Subtree(_, _)
\* the nodes of the subtree below n, n included
Subtree(h, n) ==
    IF n = Null THEN {}
    ELSE {n} \cup Subtree(h, h[n].lchild) \cup Subtree(h, h[n].rchild)

\* what the child c that a rotation would lift is: "absent", "black" or "red"
PivotStatus(h, c) ==
    IF c = Null THEN "absent" ELSE IF IsRed(h, c) THEN "red" ELSE "black"

\* the heap after the caller of a rotation has stored the pointer p it got
\* back in the link that held n (nptr->lchild_ = ..., nptr->rchild_ = ...)
Relink(h, n, p) ==
    IF n = Null \/ p = n THEN h
    ELSE [a \in DOMAIN h |->
            IF a # p /\ h[a].lchild = n THEN [h[a] EXCEPT !.lchild = p]
            ELSE IF a # p /\ h[a].rchild = n THEN [h[a] EXCEPT !.rchild = p]
            ELSE h[a]]

\* RotateLeft(n) called on a node n of the tree of m, or on a null pointer;
\* the caller stores the pointer returned where it held n
DoRotateLeft(m, n) ==
    /\ m \in DOMAIN root
    /\ Len(cerr) < MaxErr
    /\ lastOp' = [op |-> "rotateleft",
                  was |-> IF n = Null THEN "absent" ELSE PivotStatus(heap, heap[n].rchild)]
    /\ heap' = Relink(RotateLeft(heap, n).heap, n, RotateLeft(heap, n).node)
    /\ root' = [root EXCEPT ![m] = IF @ = n THEN RotateLeft(heap, n).node ELSE @]
    /\ cerr' = cerr \o RotateLeft(heap, n).err
    /\ UNCHANGED <<absLive, absSlot>>

\* RotateRight(n) called on a node n of the tree of m, or on a null pointer;
\* the caller stores the pointer returned where it held n
DoRotateRight(m, n) ==
    /\ m \in DOMAIN root
    /\ Len(cerr) < MaxErr
    /\ lastOp' = [op |-> "rotateright",
                  was |-> IF n = Null THEN "absent" ELSE PivotStatus(heap, heap[n].lchild)]
    /\ heap' = Relink(RotateRight(heap, n).heap, n, RotateRight(heap, n).node)
    /\ root' = [root EXCEPT ![m] = IF @ = n THEN RotateRight(heap, n).node ELSE @]
    /\ cerr' = cerr \o RotateRight(heap, n).err
    /\ UNCHANGED <<absLive, absSlot>>

\* one map, keys 1..MaxKey, two data values
Next ==
    \/ \E k \in Keys : DoGet("a", k)
    \/ \E k \in Keys : DoIndex("a", k)
    \/ \E k \in Keys, d \in Data : DoPut("a", k, d)
    \/ \E k \in Keys, d \in Data : DoInsert("a", k, d)
    \/ \E k \in Keys : DoErase("a", k)
    \/ DoClear("a")
    \/ DoRehash("a")

Spec == Init /\ [][Next]_vars

\* taller trees: one map, keys 1..TallKey put in any order, one data value.
\* Erase changes no link, and Rehash puts the keys alive into an empty tree
\* in ascending order, so every shape a tree of these keys can take is
\* reached by Put and Clear alone.
NextTall ==
    \/ \E k \in TallKeys : DoPut("a", k, DefaultData)
    \/ DoClear("a")

SpecTall == Init /\ [][NextTall]_vars

\* two maps, keys 1..CopyKey, one data value: every method is called on "a";
\* "b" is constructed, copied from "a", assigned to "a" and destroyed
NextCopy ==
    \/ \E k \in CopyKeys : DoGet("a", k)
    \/ \E k \in CopyKeys : DoIndex("a", k)
    \/ \E k \in CopyKeys : DoPut("a", k, DefaultData)
    \/ \E k \in CopyKeys : DoInsert("a", k, DefaultData)
    \/ \E k \in CopyKeys : DoErase("a", k)
    \/ DoClear("a")
    \/ DoRehash("a")
    \/ DoConstruct("b")
    \/ DoCopyConstruct("b", "a")
    \/ \E m \in MapIds, that \in MapIds : DoAssign(m, that)
    \/ DoDestroy("b")

SpecCopy == Init /\ [][NextCopy]_vars

\* one map, keys 1..MaxKey, two data values, with the calls of Retrieve
NextRead ==
    \/ \E k \in Keys, d \in Data : DoPut("a", k, d)
    \/ \E k \in Keys : DoErase("a", k)
    \/ DoClear("a")
    \/ DoRehash("a")
    \/ \E k \in Keys, out \in Data : DoRetrieve("a", k, out)

SpecRead == Init /\ [][NextRead]_vars

\* the value the calls of SpecDeep write for key k: the keys do not all hold
\* the same value, and no key adds states by the values it takes
DeepData(k) == IF k = 1 THEN OtherData ELSE DefaultData

\* two maps, keys 1..CopyKey: "a" is written, erased, rehashed and cleared;
\* "b" is constructed, copied from "a", assigned to and from "a", and
\* destroyed, so that either map is the copy of the other
NextDeep ==
    \/ \E k \in CopyKeys : DoPut("a", k, DeepData(k))
    \/ \E k \in CopyKeys : DoErase("a", k)
    \/ DoClear("a")
    \/ DoRehash("a")
    \/ DoConstruct("b")
    \/ DoCopyConstruct("b", "a")
    \/ \E m \in MapIds, that \in MapIds : DoAssign(m, that)
    \/ DoDestroy("b")

SpecDeep == Init /\ [][NextDeep]_vars

\* one map, keys 1..EqKey put in any order, erased and cleared: trees that
\* hold the same entries in different shapes, with and without tombstones
NextEq ==
    \/ \E k \in EqKeys : DoPut("a", k, DeepData(k))
    \/ \E k \in EqKeys : DoErase("a", k)
    \/ DoClear("a")

SpecEq == Init /\ [][NextEq]_vars

\* one map, keys 1..RotKey put, erased and cleared, and the two rotations
\* called on any node of the tree or on a null pointer, whatever the colour
\* of the child they would lift
NextRotate ==
    \/ \E k \in RotKeys : DoPut("a", k, DefaultData)
    \/ \E k \in RotKeys : DoErase("a", k)
    \/ DoClear("a")
    \/ \E n \in Subtree(heap, root["a"]) \cup {Null} : DoRotateLeft("a", n)
    \/ \E n \in Subtree(heap, root["a"]) \cup {Null} : DoRotateRight("a", n)

SpecRotate == Init /\ [][NextRotate]_vars

\* ------------------------------------------------------------------------
\* What the properties below are stated with
\* ------------------------------------------------------------------------

RECURSIVE InorderNodes(_, _)
\* the nodes of the subtree below n: left subtree, n, right subtree
InorderNodes(h, n) ==
    IF n = Null THEN <<>>
    ELSE InorderNodes(h, h[n].lchild) \o <<n>> \o InorderNodes(h, h[n].rchild)

\* the entries of a sequence of nodes
EntriesOf(h, ns) == [i \in 1..Len(ns) |-> [key_ |-> h[ns[i]].key, data_ |-> h[ns[i]].data]]

\* the entries alive of the tree below rt, in the order of the tree
LiveEntries(h, rt) ==
    EntriesOf(h, SelectSeq(InorderNodes(h, rt), LAMBDA n : IsAlive(h, n)))

RECURSIVE Walk(_, _, _)
\* the nodes an iterator yields from i on, by ++, until it equals End() or
\* fuel nodes have been yielded
Walk(h, i, fuel) ==
    IF IterEq(i, End) \/ fuel = 0 THEN <<>>
    ELSE <<Top(i)>> \o Walk(h, Increment(h, i), fuel - 1)

RECURSIVE AdvanceN(_, _, _)
\* the iterator i after n times ++
AdvanceN(h, i, n) == IF n = 0 THEN i ELSE AdvanceN(h, Increment(h, i), n - 1)

\* every key in the left subtree of a node is less than its key, every key
\* in its right subtree is greater
BSTOrder(h, rt) ==
    \A n \in Subtree(h, rt) :
        /\ \A x \in Subtree(h, h[n].lchild) : Pred(h[x].key, h[n].key)
        /\ \A x \in Subtree(h, h[n].rchild) : Pred(h[n].key, h[x].key)

RECURSIVE BlackCounts(_, _)
\* the numbers of black nodes on the paths from n down to a null link
BlackCounts(h, n) ==
    IF n = Null THEN {0}
    ELSE {c + (IF IsBlack(h, n) THEN 1 ELSE 0) :
             c \in BlackCounts(h, h[n].lchild) \cup BlackCounts(h, h[n].rchild)}

BlackBalanced(h, rt) == Cardinality(BlackCounts(h, rt)) = 1

\* no red right child beside a black (or null) left child, and no red left
\* child with a red left child
LeftLeaning(h, rt) ==
    \A n \in Subtree(h, rt) :
        /\ ~(RightChildIsRed(h, n) /\ ~LeftChildIsRed(h, n))
        /\ ~(LeftChildIsRed(h, n) /\ LeftChildIsRed(h, h[n].lchild))

RootIsBlack(h, rt) == rt # Null => IsBlack(h, rt)

RECURSIVE Shape(_, _)
\* the tree below n without its addresses: keys, values, flags and links
Shape(h, n) ==
    IF n = Null THEN <<>>
    ELSE <<Shape(h, h[n].lchild),
           [key |-> h[n].key, data |-> h[n].data, flags |-> h[n].flags],
           Shape(h, h[n].rchild)>>

RECURSIVE Pow2(_)
Pow2(n) == IF n <= 0 THEN 1 ELSE 2 * Pow2(n - 1)

\* ------------------------------------------------------------------------
\* C1: after any sequence of Get, Put, Insert, Erase, Rehash and Clear, a key
\* whose last Get/Put/Insert came after its last Erase/Clear is found by
\* Includes and Retrieve returns true with the value last written for it;
\* any other key is not found by Includes and Retrieve returns false.
\* ------------------------------------------------------------------------
C1_LookupAgreesWithWrites ==
    \A m \in DOMAIN root : \A k \in Keys :
        LET i == Includes(heap, root[m], k)
            r == Retrieve(heap, root[m], k, DefaultData)
        IN  IF k \in absLive[m]
            THEN ~IterEq(i, End) /\ r.ret /\ r.d = absSlot[m][k]
            ELSE IterEq(i, End) /\ ~r.ret

\* a key written again after its Erase is found with the new value while
\* another key, erased, is a tombstone that is not found
C1_Witness ==
    \E k \in Keys, j \in Keys :
        /\ k \in absLive["a"]
        /\ absSlot["a"][k] = OtherData
        /\ Retrieve(heap, root["a"], k, DefaultData) = [ret |-> TRUE, d |-> OtherData]
        /\ j \notin absLive["a"]
        /\ KeyStatus(heap, root["a"], j) = "dead"
        /\ ~Retrieve(heap, root["a"], j, DefaultData).ret
        /\ lastOp = [op |-> "put", was |-> "dead"]

\* ------------------------------------------------------------------------
\* C2: after any sequence of public operations the tree is a strict binary
\* search tree over all its nodes, alive or dead, so that no two nodes hold
\* the same key.
\* ------------------------------------------------------------------------
C2_StrictBST ==
    \A m \in DOMAIN root :
        /\ BSTOrder(heap, root[m])
        /\ \A x, y \in Subtree(heap, root[m]) : heap[x].key = heap[y].key => x = y

\* a tree whose root has two children and that holds a tombstone
C2_Witness ==
    /\ root["a"] # Null
    /\ HasLeftChild(heap, root["a"])
    /\ HasRightChild(heap, root["a"])
    /\ \E n \in Subtree(heap, root["a"]) : IsDead(heap, n)

\* ------------------------------------------------------------------------
\* C3: after any sequence of public operations every path from the root to a
\* null link passes the same number of black nodes, whichever nodes are
\* tombstones.
\* ------------------------------------------------------------------------
C3_BlackBalance == \A m \in DOMAIN root : BlackBalanced(heap, root[m])

\* a tree with two levels of black nodes and a black tombstone
C3_Witness ==
    /\ RNumNodes(heap, root["a"]) >= 3
    /\ BlackCounts(heap, root["a"]) = {2}
    /\ \E n \in Subtree(heap, root["a"]) : IsDead(heap, n) /\ IsBlack(heap, n)

\* ------------------------------------------------------------------------
\* C4: after any sequence of public operations no node has a red right child
\* while its left child is black or null, and no red left child has a red
\* left child.
\* ------------------------------------------------------------------------
C4_LeftLeaning == \A m \in DOMAIN root : LeftLeaning(heap, root[m])

\* a red node hangs to the left of a root that is a tombstone, and the
\* root has no right child
C4_Witness ==
    /\ root["a"] # Null
    /\ LeftChildIsRed(heap, root["a"])
    /\ ~HasRightChild(heap, root["a"])
    /\ IsDead(heap, root["a"])

\* ------------------------------------------------------------------------
\* C5: whenever a public operation (Get, Put, Insert, Erase, Rehash, Clear,
\* copy construction, assignment) has returned and the tree is not empty,
\* its root is BLACK.
\* ------------------------------------------------------------------------
C5_RootBlack == \A m \in DOMAIN root : RootIsBlack(heap, root[m])

\* a copy, just made, of a tree of one node
C5_Witness ==
    /\ "b" \in DOMAIN root
    /\ lastOp.op \in {"copy", "assign"}
    /\ root["b"] # Null
    /\ RNumNodes(heap, root["b"]) = 1
    /\ IsBlack(heap, root["b"])

\* ------------------------------------------------------------------------
\* C6: from Begin(), ++ until End() yields keys in strictly ascending order,
\* only entries alive, exactly Size() of them, and End() is reached after
\* Size() advances, also when the smallest key or a run of keys is dead.
\* ------------------------------------------------------------------------
C6_InorderIteration ==
    \A m \in DOMAIN root :
        LET rt == root[m]
            w  == Walk(heap, Begin(heap, rt), RNumNodes(heap, rt) + 1)
        IN  /\ \A i \in 1..(Len(w) - 1) : Pred(heap[w[i]].key, heap[w[i + 1]].key)
            /\ \A i \in 1..Len(w) : IsAlive(heap, w[i])
            /\ Len(w) = Size(heap, rt)
            /\ IterEq(AdvanceN(heap, Begin(heap, rt), Size(heap, rt)), End)
            /\ \A j \in 0..(Size(heap, rt) - 1) :
                   ~IterEq(AdvanceN(heap, Begin(heap, rt), j), End)

\* the two smallest keys are tombstones and an entry alive follows them
C6_Witness ==
    LET ns == InorderNodes(heap, root["a"])
    IN  /\ Len(ns) >= 3
        /\ IsDead(heap, ns[1])
        /\ IsDead(heap, ns[2])
        /\ IsAlive(heap, ns[3])

\* ------------------------------------------------------------------------
\* C7: Rehash() keeps the in-order sequence of the (key, value) pairs alive
\* and removes every tombstone: afterwards NumNodes() = Size(), no node is
\* dead, and BST order and the red-black invariants hold.
\* ------------------------------------------------------------------------
C7_RehashKeepsLiveEntries ==
    [][DoRehash("a") =>
        /\ LiveEntries(heap', root'["a"]) = LiveEntries(heap, root["a"])
        /\ NumNodes(heap', root'["a"]) = Size(heap', root'["a"])
        /\ Size(heap', root'["a"]) = Size(heap, root["a"])
        /\ \A n \in Subtree(heap', root'["a"]) : IsAlive(heap', n)
        /\ BSTOrder(heap', root'["a"])
        /\ BlackBalanced(heap', root'["a"])
        /\ LeftLeaning(heap', root'["a"])
        /\ RootIsBlack(heap', root'["a"])
    ]_vars

\* Rehash() has returned on a tree that held tombstones and entries alive
C7_Witness ==
    /\ lastOp = [op |-> "rehash", was |-> "dead"]
    /\ RNumNodes(heap, root["a"]) >= 2

\* ------------------------------------------------------------------------
\* C8: Erase(k) only sets the DEAD bit of the node of k: no node is added,
\* removed or moved, no link, colour or value changes, NumNodes() and
\* Height() stay; if k has no node or is dead already nothing changes, and a
\* second Erase(k) changes nothing.
\* ------------------------------------------------------------------------
C8_EraseOnlyMarksDead ==
    [][\A k \in Keys : DoErase("a", k) =>
        LET n == FindNode(heap, root["a"], k)
        IN  /\ root' = root
            /\ DOMAIN heap' = DOMAIN heap
            /\ \A a \in DOMAIN heap :
                   heap'[a] = IF a = n THEN [heap[a] EXCEPT !.flags = OrFlag(@, DEAD)]
                              ELSE heap[a]
            /\ n # Null => IsDead(heap', n)
            /\ NumNodes(heap', root'["a"]) = NumNodes(heap, root["a"])
            /\ Height(heap', root'["a"]) = Height(heap, root["a"])
            /\ (n = Null \/ IsDead(heap, n)) => heap' = heap
            /\ Erase(heap', root'["a"], k) = heap'
    ]_vars

\* Erase has returned on a key that was alive in a red node
C8_Witness ==
    /\ lastOp = [op |-> "erase", was |-> "alive"]
    /\ \E n \in Subtree(heap, root["a"]) :
           heap[n].key \notin absLive["a"] /\ IsDead(heap, n) /\ IsRed(heap, n)

\* ------------------------------------------------------------------------
\* C9: after any sequence of public operations 2^Height() <= (NumNodes()+1)^2,
\* that is Height() <= 2*log2(NumNodes()+1); the keys put in ascending or in
\* descending order are among the sequences.
\* ------------------------------------------------------------------------
C9_HeightBound ==
    \A m \in DOMAIN root :
        root[m] # Null =>
            Pow2(Height(heap, root[m]))
                <= (NumNodes(heap, root[m]) + 1) * (NumNodes(heap, root[m]) + 1)

\* a tree of eight nodes or more
C9_Witness ==
    /\ NumNodes(heap, root["a"]) >= 8
    /\ Height(heap, root["a"]) >= 3

\* ------------------------------------------------------------------------
\* C10: after Put(k, d), Retrieve(k, out) returns true with out = d; a Put on
\* a key that is alive already leaves Size() and NumNodes() as they were and
\* the key in one node only.
\* ------------------------------------------------------------------------
C10_PutThenRetrieve ==
    [][\A k \in Keys, d \in Data : DoPut("a", k, d) =>
        LET out == IF d = DefaultData THEN OtherData ELSE DefaultData
        IN  /\ Retrieve(heap', root'["a"], k, out) = [ret |-> TRUE, d |-> d]
            /\ KeyStatus(heap, root["a"], k) = "alive" =>
                   /\ Size(heap', root'["a"]) = Size(heap, root["a"])
                   /\ NumNodes(heap', root'["a"]) = NumNodes(heap, root["a"])
                   /\ Cardinality({n \in Subtree(heap', root'["a"]) :
                                      heap'[n].key = k}) = 1
    ]_vars

\* a second Put has overwritten the value of a key that was alive
C10_Witness ==
    /\ lastOp = [op |-> "put", was |-> "alive"]
    /\ \E k \in Keys :
           Retrieve(heap, root["a"], k, DefaultData) = [ret |-> TRUE, d |-> OtherData]

\* p1 is the map after Put(k, d), h2 its heap after Erase(k) and p3 the map
\* after Put(k, d2); out is a value other than d2
ResurrectedIn(p1, h2, p3, k, d2, out) ==
    /\ ~Retrieve(h2, p1.root, k, out).ret
    /\ Size(h2, p1.root) = Size(p1.heap, p1.root) - 1
    /\ Retrieve(p3.heap, p3.root, k, out) = [ret |-> TRUE, d |-> d2]
    /\ Size(p3.heap, p3.root) = Size(p1.heap, p1.root)
    /\ NumNodes(p3.heap, p3.root) = NumNodes(h2, p1.root)
    /\ DOMAIN p3.heap = DOMAIN h2
    /\ FindNode(p3.heap, p3.root, k) = FindNode(h2, p1.root, k)

ErasedThenPut(p1, h2, k, d2) ==
    ResurrectedIn(p1, h2, Put(h2, p1.root, k, d2), k, d2,
                  IF d2 = DefaultData THEN OtherData ELSE DefaultData)

PutThenErased(p1, k, d2) ==
    ErasedThenPut(p1, Erase(p1.heap, p1.root, k), k, d2)

\* ------------------------------------------------------------------------
\* C11: Put(k, d); Erase(k); Put(k, d2) with nothing in between: Retrieve(k)
\* yields d2, Size() is what it was before the Erase, and the second Put
\* changes NumNodes() not at all: it allocates no node and k is held by the
\* node that held it before.  Every Put on a key whose node is dead is such
\* a resurrection.
\* ------------------------------------------------------------------------
C11_ResurrectionReusesNode ==
    /\ [](\A k \in Keys, d \in Data, d2 \in Data :
            PutThenErased(Put(heap, root["a"], k, d), k, d2))
    /\ [][\A k \in Keys, d \in Data :
            (DoPut("a", k, d) /\ KeyStatus(heap, root["a"], k) = "dead") =>
                /\ Retrieve(heap', root'["a"], k,
                            IF d = DefaultData THEN OtherData ELSE DefaultData)
                       = [ret |-> TRUE, d |-> d]
                /\ Size(heap', root'["a"]) = Size(heap, root["a"]) + 1
                /\ NumNodes(heap', root'["a"]) = NumNodes(heap, root["a"])
                /\ DOMAIN heap' = DOMAIN heap
                /\ FindNode(heap', root'["a"], k) = FindNode(heap, root["a"], k)
       ]_vars

\* a Put has just resurrected a key with a new value while another key is
\* still a tombstone
C11_Witness ==
    /\ lastOp = [op |-> "put", was |-> "dead"]
    /\ NumNodes(heap, root["a"]) = Size(heap, root["a"]) + 1
    /\ \E k \in absLive["a"] :
           /\ absSlot["a"][k] = OtherData
           /\ Retrieve(heap, root["a"], k, DefaultData).d = OtherData

\* ------------------------------------------------------------------------
\* C12: Get(k) and operator[] on a key that has no node allocate exactly one
\* node, created RED and ALIVE with the value D(), and return a reference to
\* its data_; on a key that has a node they allocate nothing, return a
\* reference to the data_ of that node, leave the value stored as it is and
\* mark the node alive.
\* ------------------------------------------------------------------------
C12_GetCreatesOrFinds ==
    [][\A k \in Keys : DoGet("a", k) =>
        LET n == FindNode(heap, root["a"], k)
            g == Get(heap, root["a"], k)
            c == RGet(heap, Null, k)
        IN  IF n = Null
            THEN /\ c.node \notin DOMAIN heap
                 /\ c.heap[c.node] = Node(k, DefaultData, DEFAULT)
                 /\ IsRed(c.heap, c.node) /\ IsAlive(c.heap, c.node)
                 /\ c.location = c.node
                 /\ DOMAIN heap \subseteq DOMAIN heap'
                 /\ Cardinality(DOMAIN heap' \ DOMAIN heap) = 1
                 /\ g.location \in DOMAIN heap' \ DOMAIN heap
                 /\ heap'[g.location].key = k
                 /\ heap'[g.location].data = DefaultData
                 /\ IsAlive(heap', g.location)
                 /\ FindNode(heap', root'["a"], k) = g.location
                 /\ NumNodes(heap', root'["a"]) = NumNodes(heap, root["a"]) + 1
                 /\ Size(heap', root'["a"]) = Size(heap, root["a"]) + 1
                 /\ \A a \in DOMAIN heap :
                        /\ heap'[a].key = heap[a].key
                        /\ heap'[a].data = heap[a].data
                        /\ IsDead(heap', a) = IsDead(heap, a)
            ELSE /\ DOMAIN heap' = DOMAIN heap
                 /\ root' = root
                 /\ g.location = n
                 /\ heap'[n].data = heap[n].data
                 /\ IsAlive(heap', n)
                 /\ heap' = SetAlive(heap, n)
    ]_vars

\* Get has returned on a key that had no node, in a tree that held other
\* nodes, one of them dead
C12_Witness ==
    /\ lastOp = [op |-> "get", was |-> "absent"]
    /\ NumNodes(heap, root["a"]) >= 2
    /\ Size(heap, root["a"]) < NumNodes(heap, root["a"])
    /\ \E n \in Subtree(heap, root["a"]) :
           IsAlive(heap, n) /\ IsRed(heap, n) /\ heap[n].data = DefaultData

\* ------------------------------------------------------------------------
\* C13: Retrieve(k, d) returns true and writes the value stored into d iff
\* k has a node that is alive; otherwise it returns false and leaves d as it
\* was.  In both cases no node, link, colour, liveness bit or value of the
\* map changes.
\* ------------------------------------------------------------------------
C13_RetrieveReadsOnly ==
    [][\A k \in Keys, out \in Data : DoRetrieve("a", k, out) =>
        LET n == FindNode(heap, root["a"], k)
        IN  /\ lastOp'.ret = (n # Null /\ IsAlive(heap, n))
            /\ lastOp'.ret => lastOp'.d = heap[n].data
            /\ ~lastOp'.ret => lastOp'.d = out
            /\ IterEq(Includes(heap, root["a"], k), End) = ~lastOp'.ret
            /\ heap' = heap
            /\ root' = root
            /\ cerr' = cerr
    ]_vars

\* Retrieve has returned false for a key whose node is dead and holds D(),
\* and d still holds the other value
C13_Witness ==
    /\ lastOp.op = "retrieve"
    /\ lastOp.was = "dead"
    /\ lastOp.ret = FALSE
    /\ lastOp.d = OtherData
    /\ \E n \in Subtree(heap, root["a"]) :
           IsDead(heap, n) /\ heap[n].data = DefaultData

\* ------------------------------------------------------------------------
\* C14: in every reachable state Size() <= NumNodes() and NumNodes() - Size()
\* is the number of nodes that are dead; Size() = NumNodes() in a fresh map,
\* when Rehash() has just returned, and after every call other than Erase
\* made in a state where they were equal, hence after any sequence of calls
\* with no Erase in it.
\* ------------------------------------------------------------------------
C14_SizeAndNumNodes ==
    /\ [](/\ Size(heap, root["a"]) <= NumNodes(heap, root["a"])
          /\ NumNodes(heap, root["a"]) - Size(heap, root["a"])
                 = Cardinality({n \in Subtree(heap, root["a"]) : IsDead(heap, n)})
          /\ lastOp.op \in {"none", "rehash"} =>
                 Size(heap, root["a"]) = NumNodes(heap, root["a"]))
    /\ [][(Size(heap, root["a"]) = NumNodes(heap, root["a"]) /\ lastOp'.op # "erase")
              => Size(heap', root'["a"]) = NumNodes(heap', root'["a"])]_vars

\* two of three nodes are dead after an Erase
C14_Witness ==
    /\ lastOp = [op |-> "erase", was |-> "alive"]
    /\ NumNodes(heap, root["a"]) = 3
    /\ Size(heap, root["a"]) = 1
    /\ Cardinality({n \in Subtree(heap, root["a"]) : IsDead(heap, n)}) = 2

\* ------------------------------------------------------------------------
\* C15: right after a copy construction or an assignment the copy compares
\* equal to the original and has its NumNodes(), Size(), Height() and, node
\* by node, its keys, values, colours and liveness bits (tombstones are
\* copied), in nodes of its own; the original is as it was.  A later Put,
\* Erase, Rehash or Clear on one of the two maps changes no node of the
\* other.
\* ------------------------------------------------------------------------
C15_DeepCopy ==
    [][/\ \A m \in MapIds, that \in MapIds :
            (m # that /\ (DoCopyConstruct(m, that) \/ DoAssign(m, that))) =>
                /\ Equal(heap', root'[m], root'[that])
                /\ ~NotEqual(heap', root'[m], root'[that])
                /\ NumNodes(heap', root'[m]) = NumNodes(heap', root'[that])
                /\ Size(heap', root'[m]) = Size(heap', root'[that])
                /\ Height(heap', root'[m]) = Height(heap', root'[that])
                /\ Shape(heap', root'[m]) = Shape(heap', root'[that])
                /\ Subtree(heap', root'[m]) \cap Subtree(heap', root'[that]) = {}
                /\ root'[that] = root[that]
                /\ \A n \in Subtree(heap, root[that]) :
                       n \in DOMAIN heap' /\ heap'[n] = heap[n]
       /\ ("b" \in DOMAIN root /\ lastOp'.op \in {"put", "erase", "rehash", "clear"}) =>
                /\ root'["b"] = root["b"]
                /\ \A n \in Subtree(heap, root["b"]) :
                       n \in DOMAIN heap' /\ heap'[n] = heap[n]
                /\ Shape(heap', root'["b"]) = Shape(heap, root["b"])
    ]_vars

\* "b" holds a copy with a tombstone and a red node, and "a" has been
\* cleared since
C15_Witness ==
    /\ "b" \in DOMAIN root
    /\ lastOp.op = "clear"
    /\ root["a"] = Null
    /\ NumNodes(heap, root["b"]) = 2
    /\ \E n \in Subtree(heap, root["b"]) : IsDead(heap, n)
    /\ \E n \in Subtree(heap, root["b"]) : IsRed(heap, n)
    /\ \E n \in Subtree(heap, root["b"]) : heap[n].data = OtherData

\* ------------------------------------------------------------------------
\* C16: map1 == map2 holds iff the in-order sequences of the (key, value)
\* pairs alive of the two maps are identical, whatever the shapes, the
\* colours, the order of the insertions and the tombstones of the two trees;
\* map1 != map2 is its negation.  The map of a reachable state is compared
\* with maps built beside it: one that receives its entries alive in
\* descending order, and that one after one more Put or Erase.
\* ------------------------------------------------------------------------
RECURSIVE PutDescending(_, _, _)
\* a map t = [heap, root] after Put of the entries es[i], ..., es[1]
PutDescending(t, es, i) ==
    IF i = 0 THEN t
    ELSE PutDescending([heap |-> Put(t.heap, t.root, es[i].key_, es[i].data_).heap,
                        root |-> Put(t.heap, t.root, es[i].key_, es[i].data_).root],
                       es, i - 1)

\* a second map beside the one of the state, with the same entries alive
Twin == PutDescending([heap |-> heap, root |-> Null],
                      LiveEntries(heap, root["a"]),
                      Len(LiveEntries(heap, root["a"])))

\* operator == and operator != on the maps with roots rt1 and rt2 say what
\* the sequences of the entries alive say, in either order of the operands
EqualIsSameEntries(h, rt1, rt2) ==
    /\ Equal(h, rt1, rt2) = (LiveEntries(h, rt1) = LiveEntries(h, rt2))
    /\ Equal(h, rt2, rt1) = Equal(h, rt1, rt2)
    /\ NotEqual(h, rt1, rt2) = ~Equal(h, rt1, rt2)
    /\ NotEqual(h, rt2, rt1) = ~Equal(h, rt2, rt1)

C16_EqualityOfMaps ==
    /\ Equal(Twin.heap, root["a"], Twin.root)
    /\ EqualIsSameEntries(Twin.heap, root["a"], Twin.root)
    /\ Equal(heap, root["a"], root["a"])
    /\ \A k \in EqKeys, d \in Data :
           EqualIsSameEntries(Put(Twin.heap, Twin.root, k, d).heap, root["a"],
                              Put(Twin.heap, Twin.root, k, d).root)
    /\ \A k \in EqKeys :
           EqualIsSameEntries(Erase(Twin.heap, Twin.root, k), root["a"], Twin.root)

\* three entries alive or more behind a tombstone at the smallest key, in a
\* tree that is taller than the map built from its entries in descending
\* order, which is equal to it
C16_Witness ==
    /\ Size(heap, root["a"]) >= 3
    /\ NumNodes(heap, root["a"]) = Size(heap, root["a"]) + 1
    /\ IsDead(heap, InorderNodes(heap, root["a"])[1])
    /\ Height(heap, root["a"]) > Height(Twin.heap, Twin.root)
    /\ Equal(Twin.heap, root["a"], Twin.root)
    /\ NotEqual(Erase(Twin.heap, Twin.root, EqKey), root["a"], Twin.root)

\* ------------------------------------------------------------------------
\* C17: a fresh map and a map on which Clear() has just returned are in the
\* same empty state: root_ is null, Height() = -1, Size() = 0, NumNodes() = 0,
\* Begin() = End(), and no node is allocated any more; Rehash() and Clear()
\* called in that state leave it as it is and allocate and release nothing.
\* ------------------------------------------------------------------------
C17_EmptyState ==
    /\ [](lastOp.op \in {"none", "clear"} =>
            /\ root["a"] = Null
            /\ Empty(root["a"])
            /\ Height(heap, root["a"]) = -1
            /\ Size(heap, root["a"]) = 0
            /\ NumNodes(heap, root["a"]) = 0
            /\ IterEq(Begin(heap, root["a"]), End)
            /\ DOMAIN heap = {})
    /\ [][(root["a"] = Null /\ (DoClear("a") \/ DoRehash("a"))) =>
            /\ heap' = heap
            /\ root' = root
            /\ cerr' = cerr
            /\ Height(heap', root'["a"]) = -1
            /\ IterEq(Begin(heap', root'["a"]), End)
       ]_vars

\* Clear() has just returned on a tree that held entries and tombstones
C17_Witness ==
    /\ lastOp = [op |-> "clear", was |-> "dead"]
    /\ root["a"] = Null
    /\ DOMAIN heap = {}

\* ------------------------------------------------------------------------
\* C18: a second Rehash() right after a Rehash() leaves the tree the first
\* one left: same shape, colours, liveness bits and entries; Rehash() on a
\* map without tombstones leaves the sequence of its (key, value) pairs
\* alive, Size() and NumNodes() as they were.
\* ------------------------------------------------------------------------
C18_RehashIdempotent ==
    [][DoRehash("a") =>
        /\ Shape(Rehash(heap', root'["a"]).heap, Rehash(heap', root'["a"]).root)
               = Shape(heap', root'["a"])
        /\ Rehash(heap', root'["a"]).err = <<>>
        /\ Size(heap, root["a"]) = NumNodes(heap, root["a"]) =>
               /\ LiveEntries(heap', root'["a"]) = LiveEntries(heap, root["a"])
               /\ Size(heap', root'["a"]) = Size(heap, root["a"])
               /\ NumNodes(heap', root'["a"]) = NumNodes(heap, root["a"])
    ]_vars

\* Rehash() has returned on a tree of three nodes, none of them dead, with
\* values that differ
C18_Witness ==
    /\ lastOp = [op |-> "rehash", was |-> "alive"]
    /\ NumNodes(heap, root["a"]) = 3
    /\ \E n \in Subtree(heap, root["a"]) : heap[n].data = OtherData
    /\ \E n \in Subtree(heap, root["a"]) : heap[n].data = DefaultData

RECURSIVE sWalk(_, _, _)
\* the nodes a structural iterator yields from i on, by sIncrement, until it
\* equals End() or fuel nodes have been yielded
sWalk(h, i, fuel) ==
    IF IterEq(i, End) \/ fuel = 0 THEN <<>>
    ELSE <<Top(i)>> \o sWalk(h, sIncrement(h, i), fuel - 1)

\* the sequence w of nodes holds every node of the tree at rt once, in
\* strictly ascending order of the keys
VisitsAllAscending(h, rt, w) ==
    /\ Len(w) = NumNodes(h, rt)
    /\ {w[x] : x \in 1..Len(w)} = Subtree(h, rt)
    /\ \A x \in 1..(Len(w) - 1) : Pred(h[w[x]].key, h[w[x + 1]].key)

C20_StructuralVisitsAllNodes ==
    VisitsAllAscending(heap, root["a"],
        sWalk(heap, BeginStructuralInorder(heap, root["a"]),
              NumNodes(heap, root["a"]) + 1))

\* after an Erase, a tree of three nodes of which only the root is alive:
\* the structural iterator starts on a dead node and, advanced twice, is on
\* another dead node
C20_Witness ==
    /\ lastOp.op = "erase"
    /\ NumNodes(heap, root["a"]) = 3
    /\ Size(heap, root["a"]) = 1
    /\ IsAlive(heap, root["a"])
    /\ IsDead(heap, Top(BeginStructuralInorder(heap, root["a"])))
    /\ IsDead(heap, Top(sIncrement(heap, sIncrement(heap,
                         BeginStructuralInorder(heap, root["a"])))))

\* ------------------------------------------------------------------------
\* C21: an iterator that Begin() and ++ have positioned on the entry alive
\* of key k is still usable after Erase(k): *i is still the entry of k, whose
\* node is now dead, and ++ from it yields the entries alive with keys
\* greater than k, in ascending order, and then equals End().  The iterator
\* Includes(k) had returned still dereferences to the entry of k as well.
\* ------------------------------------------------------------------------
\* the entries of es whose keys are greater than k
EntriesAbove(es, k) == SelectSeq(es, LAMBDA e : Pred(k, e.key_))

\* i is positioned in heap h on a node alive; h2 is the heap after the Erase
\* of the key of that node from the tree at rt
IteratorSurvivesErase(h, h2, rt, i) ==
    /\ Deref(h2, i) = Deref(h, i)
    /\ IsAlive(h, Top(i)) /\ IsDead(h2, Top(i))
    /\ EntriesOf(h2, Walk(h2, Increment(h2, i), RNumNodes(h2, rt) + 1))
           = EntriesAbove(LiveEntries(h2, rt), h[Top(i)].key)
    /\ IterEq(AdvanceN(h2, Increment(h2, i),
                       Len(EntriesAbove(LiveEntries(h2, rt), h[Top(i)].key))), End)

Owned(h, r) == UNION {Subtree(h, r[m]) : m \in DOMAIN r}

ExclusiveOwnership(h, r) ==
    /\ DOMAIN h = Owned(h, r)
    /\ \A m1 \in DOMAIN r, m2 \in DOMAIN r :
           m1 # m2 => Subtree(h, r[m1]) \cap Subtree(h, r[m2]) = {}
    /\ \A m \in DOMAIN r : Cardinality(Subtree(h, r[m])) = RNumNodes(h, r[m])

\* what a step may delete
DeletesOnlyDiscarded ==
    /\ lastOp'.op \in {"get", "put", "erase", "construct", "copy"} =>
           DOMAIN heap \subseteq DOMAIN heap'
    /\ lastOp'.op = "erase" => DOMAIN heap' = DOMAIN heap
    /\ \A m \in MapIds :
           /\ DoClear(m) \/ DoDestroy(m) =>
                  DOMAIN heap' = DOMAIN heap \ Subtree(heap, root[m])
           /\ DoRehash(m) =>
                  /\ DOMAIN heap' \cap Subtree(heap, root[m]) = {}
                  /\ DOMAIN heap' \ Subtree(heap', root'[m])
                         = DOMAIN heap \ Subtree(heap, root[m])
           /\ \A that \in MapIds \ {m} : DoAssign(m, that) =>
                  /\ DOMAIN heap' \ Subtree(heap', root'[m])
                         = DOMAIN heap \ Subtree(heap, root[m])
                  /\ Cardinality(Subtree(heap', root'[m]))
                         = RNumNodes(heap, root[that])

\* ------------------------------------------------------------------------
\* C22: every node allocated is reachable from the root of exactly one map
\* and by one path only, so no node leaks and no two maps share a node, a
\* map and its copy included; Get, operator [], Put, Insert, Erase, the
\* constructors and the copies delete nothing; Clear() and the destructor
\* delete every node of their tree; Rehash() and operator = delete every
\* node of the tree they replace.
\* ------------------------------------------------------------------------
C22_ExclusiveOwnership ==
    /\ []ExclusiveOwnership(heap, root)
    /\ [][DeletesOnlyDiscarded]_vars

\* the map "b", which held a tombstone, has just been destroyed while "a"
\* holds two nodes: the two nodes of "a" are all that is allocated
C22_Witness ==
    /\ lastOp = [op |-> "destroy", was |-> "dead"]
    /\ RNumNodes(heap, root["a"]) = 2
    /\ Cardinality(DOMAIN heap) = 2

\* ------------------------------------------------------------------------
\* C23: no sequence of Get, operator [], Put, Insert, Erase, Clear and
\* Rehash makes the repair tail of RGet or of RInsert call a rotation on a
\* child that is black: neither diagnostic of the rotations is ever written
\* to std::cerr, and RGet and RInsert called with any key on the tree
\* reached write none either.
\* ------------------------------------------------------------------------
C23_NoRotationDiagnostic ==
    /\ cerr = <<>>
    /\ \A k \in Keys :
           /\ RGet(heap, root["a"], k).err = <<>>
           /\ RInsert(heap, root["a"], k, OtherData).err = <<>>

\* a Put has just added key 1 below a root with a red left child, both
\* tombstones: the repair tail has rotated right and flipped the colours,
\* and std::cerr is empty
C23_Witness ==
    /\ lastOp = [op |-> "put", was |-> "absent"]
    /\ cerr = <<>>
    /\ Len(InorderNodes(heap, root["a"])) = 3
    /\ IsAlive(heap, InorderNodes(heap, root["a"])[1])
    /\ IsDead(heap, InorderNodes(heap, root["a"])[2])
    /\ IsDead(heap, InorderNodes(heap, root["a"])[3])
    /\ heap[InorderNodes(heap, root["a"])[1]].data = OtherData

\* Put(k, d) and RInsert(root_, k, d), both called on the tree at rt, leave
\* the same root, and, once the root RInsert returns is set black, the same
\* heap: the same nodes at the same addresses with the same keys, values,
\* links, colours and liveness bits
SameTreeAs(h, rt, k, d) ==
    /\ Put(h, rt, k, d).root = RInsert(h, rt, k, d).node
    /\ Put(h, rt, k, d).heap = SetBlack(RInsert(h, rt, k, d).heap, RInsert(h, rt, k, d).node)
    /\ Put(h, rt, k, d).err = RInsert(h, rt, k, d).err

\* ------------------------------------------------------------------------
\* C24: on every reachable tree, for every key k, absent, alive or dead,
\* and every value d, Put(k, d) (RGet, root_->SetBlack(), assignment through
\* the reference returned) leaves the tree that RInsert(root_, k, d)
\* followed by SetBlack() on the root leaves: shape, colours, liveness bits
\* and values.
\* ------------------------------------------------------------------------
C24_PutIsRInsert ==
    /\ [](\A k \in Keys, d \in Data :
            SameTreeAs(heap, root["a"], k, d))
    /\ [][\A k \in Keys, d \in Data :
            DoPut("a", k, d) =>
                /\ root'["a"] = RInsert(heap, root["a"], k, d).node
                /\ heap' = SetBlack(RInsert(heap, root["a"], k, d).heap, root'["a"])
       ]_vars

\* a Put has just written OtherData to a key that was dead, in a tree that
\* also holds a key alive with the default value and lacks a third key: the
\* next Put meets a key of each kind
C24_Witness ==
    /\ lastOp = [op |-> "put", was |-> "dead"]
    /\ RNumNodes(heap, root["a"]) = 2
    /\ RSize(heap, root["a"]) = 2
    /\ {heap[n].data : n \in Subtree(heap, root["a"])} = {DefaultData, OtherData}
    /\ IsRed(heap, heap[root["a"]].lchild)

RECURSIVE BlackPathCounts(_, _)
\* for every null link below n, from left to right, the number of black
\* nodes on the path from n to it
BlackPathCounts(h, n) ==
    IF n = Null THEN <<0>>
    ELSE LET below == BlackPathCounts(h, h[n].lchild) \o BlackPathCounts(h, h[n].rchild)
         IN  [x \in 1..Len(below) |-> below[x] + (IF IsBlack(h, n) THEN 1 ELSE 0)]

\* a rotation of the subtree at n in heap h has returned p and left heap h2;
\* c is the child of n that the rotation had to lift
RotationPreserves(h, n, c, h2, p) ==
    /\ p = c
    /\ InorderNodes(h2, p) = InorderNodes(h, n)
    /\ EntriesOf(h2, InorderNodes(h2, p)) = EntriesOf(h, InorderNodes(h, n))
    /\ Subtree(h2, p) = Subtree(h, n)
    /\ IsRed(h2, p) = IsRed(h, n)
    /\ IsRed(h2, n)
    /\ DOMAIN h2 = DOMAIN h
    /\ \A x \in DOMAIN h : IsDead(h2, x) = IsDead(h, x)
    /\ BlackPathCounts(h2, p) = BlackPathCounts(h, n)
    /\ \A x \in DOMAIN h \ {n, p} : h2[x] = h[x]

\* ------------------------------------------------------------------------
\* C25: RotateLeft on a node with a red right child, and RotateRight on a
\* node with a red left child, keep the in-order sequence of the keys and
\* the set of the nodes of the subtree, give the new root of the subtree
\* the colour the old root had, make the old root red, change no liveness
\* bit, and keep the number of black nodes on every path from the root of
\* the subtree to a null link; so the whole tree keeps its in-order
\* sequence too.
\* ------------------------------------------------------------------------
C25_RotationPreserves ==
    [][\A n \in Subtree(heap, root["a"]) :
        /\ DoRotateLeft("a", n) /\ lastOp'.was = "red" =>
               /\ RotationPreserves(heap, n, heap[n].rchild,
                                     RotateLeft(heap, n).heap, RotateLeft(heap, n).node)
               /\ InorderNodes(heap', root'["a"]) = InorderNodes(heap, root["a"])
               /\ BlackPathCounts(heap', root'["a"]) = BlackPathCounts(heap, root["a"])
        /\ DoRotateRight("a", n) /\ lastOp'.was = "red" =>
               /\ RotationPreserves(heap, n, heap[n].lchild,
                                     RotateRight(heap, n).heap, RotateRight(heap, n).node)
               /\ InorderNodes(heap', root'["a"]) = InorderNodes(heap, root["a"])
               /\ BlackPathCounts(heap', root'["a"]) = BlackPathCounts(heap, root["a"])
    ]_vars

\* RotateRight has just lifted the red left child of the root of a tree of
\* three nodes, one of them dead: the old root is now the red right child
\* of the new root
C25_Witness ==
    /\ lastOp = [op |-> "rotateright", was |-> "red"]
    /\ RNumNodes(heap, root["a"]) = 3
    /\ RightChildIsRed(heap, root["a"])
    /\ \E x \in Subtree(heap, root["a"]) : IsDead(heap, x)
    /\ cerr = <<>>

\* heap h2 and root rt2 are heap h and root rt but for node x, which is
\* alive in h2 and holds the data d there: same cells, same links, same
\* colours, same keys, and nothing else changed in x
SameButNode(h, rt, h2, rt2, x, d) ==
    /\ rt2 = rt
    /\ DOMAIN h2 = DOMAIN h
    /\ \A y \in DOMAIN h \ {x} : h2[y] = h[y]
    /\ h2[x] = [h[x] EXCEPT !.flags = ClearFlag(@, DEAD), !.data = d]
    /\ IsRed(h2, x) = IsRed(h, x)
    /\ IsAlive(h2, x)
    /\ RNumNodes(h2, rt2) = RNumNodes(h, rt)
    /\ RHeight(h2, rt2) = RHeight(h, rt)

\* ------------------------------------------------------------------------
\* C26: Get(k), operator [] and Put(k, d) on a key that has a node, alive
\* or dead, rotate nothing and flip no colour: root_, every link and every
\* colour bit are as before; only the node of k may change, in its liveness
\* bit (it is alive afterwards) and, for Put, its value (Get leaves the
\* value as it is); NumNodes() and Height() are as before.
\* ------------------------------------------------------------------------
C26_ExistingKeyKeepsShape ==
    [][\A k \in Keys :
        /\ DoGet("a", k) /\ lastOp'.was \in {"alive", "dead"} =>
               SameButNode(heap, root["a"], heap', root'["a"],
                           FindNode(heap, root["a"], k),
                           heap[FindNode(heap, root["a"], k)].data)
        /\ \A d \in Data :
               DoPut("a", k, d) /\ lastOp'.was \in {"alive", "dead"} =>
                   SameButNode(heap, root["a"], heap', root'["a"],
                               FindNode(heap, root["a"], k), d)
    ]_vars

\* Get has just found a dead key in a tree of three nodes and made it alive;
\* its value is the one written before the Erase
C26_Witness ==
    /\ lastOp = [op |-> "get", was |-> "dead"]
    /\ RNumNodes(heap, root["a"]) = 3
    /\ RHeight(heap, root["a"]) = 1
    /\ RSize(heap, root["a"]) = 2
    /\ \E x \in Subtree(heap, root["a"]) :
           IsAlive(heap, x) /\ heap[x].data = OtherData /\ x # root["a"]

RECURSIVE AdvancePast(_, _, _)
\* the iterator i advanced by ++ until it has passed key k: positioned on
\* the first entry alive whose key is greater than k, or equal to End()
AdvancePast(h, i, k) ==
    IF IterEq(i, End) \/ Pred(k, Deref(h, i).key_) THEN i
    ELSE AdvancePast(h, Increment(h, i), k)

\* the iterator i is positioned on the entry alive with the least key
\* greater than k of the tree at rt, or equals End() if there is none
AtLeastLiveAbove(h, rt, i, k) ==
    IF EntriesAbove(LiveEntries(h, rt), k) = <<>> THEN IterEq(i, End)
    ELSE /\ ~IterEq(i, End)
         /\ Deref(h, i) = EntriesAbove(LiveEntries(h, rt), k)[1]

\* ------------------------------------------------------------------------
\* C27: for every key k alive, the iterator Includes(k) returns, advanced
\* once by ++, is positioned on the entry alive with the least key greater
\* than k, or equals End() if there is none, which is where the iterator of
\* Begin() is once ++ has taken it past k.
\* ------------------------------------------------------------------------
C27_IncludesThenAdvance ==
    \A k \in Keys :
        KeyStatus(heap, root["a"], k) = "alive" =>
            /\ AtLeastLiveAbove(heap, root["a"],
                                Increment(heap, Includes(heap, root["a"], k)), k)
            /\ IterEq(Increment(heap, Includes(heap, root["a"], k)),
                      AdvancePast(heap, Begin(heap, root["a"]), k))

\* Empty() is true of the trees without a node only
EmptyIsNoNodes(h, rt) ==
    /\ Empty(rt) <=> NumNodes(h, rt) = 0
    /\ (NumNodes(h, rt) > 0 /\ Size(h, rt) = 0) =>
           /\ ~Empty(rt)
           /\ IterEq(Begin(h, rt), End)

\* Erase leaves Empty() as it is; Rehash() and Clear() on a tree without an
\* entry alive make it true; Rehash() on a tree with an entry alive leaves
\* it false
EmptyChangesWithNodes ==
    /\ lastOp'.op = "erase" => Empty(root'["a"]) = Empty(root["a"])
    /\ (lastOp'.op \in {"rehash", "clear"} /\ Size(heap, root["a"]) = 0) =>
           /\ Empty(root'["a"])
           /\ NumNodes(heap', root'["a"]) = 0
    /\ (lastOp'.op = "rehash" /\ Size(heap, root["a"]) > 0) => ~Empty(root'["a"])

\* ------------------------------------------------------------------------
\* C28: Empty() is true exactly when the tree has no node (root_ is null,
\* NumNodes() = 0), not when it has no entry alive: once every key of a map
\* has been erased Size() = 0 and Begin() = End(), but Empty() is false; it
\* stays false through Erase and is true after Rehash() or Clear().
\* ------------------------------------------------------------------------
C28_EmptyMeansNoNodes ==
    /\ []EmptyIsNoNodes(heap, root["a"])
    /\ [][EmptyChangesWithNodes]_vars

\* Rehash() has just returned on a tree that held tombstones and no entry
\* alive: the map is empty now
C28_Witness ==
    /\ lastOp = [op |-> "rehash", was |-> "dead"]
    /\ Empty(root["a"])
    /\ DOMAIN heap = {}
    /\ absSlot["a"] = NoSlots

\* Get(k) called on heap h2, where the node of k is dead and holds d: the
\* reference returned is to a slot that holds d, and Retrieve(k) then
\* returns true with d
ResurrectedByGet(h2, rt, k, d) ==
    /\ ~Retrieve(h2, rt, k, d).ret
    /\ Get(h2, rt, k).heap[Get(h2, rt, k).location].data = d
    /\ Get(h2, rt, k).heap[Get(h2, rt, k).location].key = k
    /\ IsAlive(Get(h2, rt, k).heap, Get(h2, rt, k).location)
    /\ Retrieve(Get(h2, rt, k).heap, Get(h2, rt, k).root, k,
                IF d = DefaultData THEN OtherData ELSE DefaultData)
           = [ret |-> TRUE, d |-> d]

\* the map p1 after a Put of (k, d), then Erase(k), then Get(k)
PutErasedThenGet(p1, k, d) ==
    ResurrectedByGet(Erase(p1.heap, p1.root, k), p1.root, k, d)

\* ------------------------------------------------------------------------
\* C29: Put(k, d); Erase(k); Get(k) or m[k], with no Rehash() or Clear() in
\* between, returns a reference to a slot that holds d, the value written
\* before the Erase, not a default value, and Retrieve(k) then returns true
\* with d.  Every Get on a key whose node is dead is such a resurrection:
\* the slot holds the value last written for the key.
\* ------------------------------------------------------------------------
C29_GetResurrectsOldValue ==
    /\ [](\A k \in Keys, d \in Data :
            PutErasedThenGet(Put(heap, root["a"], k, d), k, d))
    /\ [][\A k \in Keys :
            (DoGet("a", k) /\ lastOp'.was = "dead") =>
                /\ heap'[FindNode(heap', root'["a"], k)].data = absSlot["a"][k]
                /\ heap'[FindNode(heap', root'["a"], k)].data
                       = heap[FindNode(heap, root["a"], k)].data
                /\ Retrieve(heap', root'["a"], k,
                            IF absSlot["a"][k] = DefaultData THEN OtherData
                            ELSE DefaultData)
                       = [ret |-> TRUE, d |-> absSlot["a"][k]]
       ]_vars

\* Get has just found the dead node of a key whose last value written was
\* not the default: the key is alive again with that value
C29_Witness ==
    /\ lastOp = [op |-> "get", was |-> "dead"]
    /\ \E k \in DOMAIN absSlot["a"] :
           /\ absSlot["a"][k] = OtherData
           /\ Retrieve(heap, root["a"], k, DefaultData) = [ret |-> TRUE, d |-> OtherData]
    /\ RSize(heap, root["a"]) = RNumNodes(heap, root["a"])
    /\ RNumNodes(heap, root["a"]) = 1

\* no node has a red right child, and no red node has a red child
TwoThreeTree(h, rt) ==
    \A n \in Subtree(h, rt) :
        /\ ~RightChildIsRed(h, n)
        /\ IsRed(h, n) => ~LeftChildIsRed(h, n) /\ ~RightChildIsRed(h, n)

\* ------------------------------------------------------------------------
\* C30: after any sequence of public operations no node has a red right
\* child, whatever its left child is, and no red node has a red child on
\* either side: the red links are left links that never follow one another,
\* so the tree stands for a 2-3 tree.
\* ------------------------------------------------------------------------
C30_TwoThreeTree ==
    \A m \in DOMAIN root : TwoThreeTree(heap, root[m])

\* a tree of six nodes with two red nodes: two nodes have a red left child
\* and a black or null right child
C30_Witness ==
    /\ RNumNodes(heap, root["a"]) = 6
    /\ Cardinality({n \in Subtree(heap, root["a"]) : IsRed(heap, n)}) = 2
    /\ Cardinality({n \in Subtree(heap, root["a"]) : LeftChildIsRed(heap, n)}) = 2
    /\ lastOp = [op |-> "put", was |-> "absent"]

====
